---------------------------- MODULE Spec2Model ----------------------------
(***************************************************************************)
(* The circuit breakers of core/circuit_breaker/circuit_breaker.go:        *)
(* averageRtCircuitBreaker, errorRatioCircuitBreaker and                   *)
(* errorCountCircuitBreaker.  One breaker instance is modelled; its kind   *)
(* and its rule are fixed by the constructor (Init).  Callers are          *)
(* goroutines inside TryPass; one step of a caller is one access to the    *)
(* breaker's shared fields (cut, passCount, metric), together with the     *)
(* thread-local computation around it.  The metric source is an object of  *)
(* its own: stat holds what its methods return at the moment, and the      *)
(* sliding window moves whenever it likes.                                 *)
(* The recovery goroutines started by a trip are the elements of tasks.    *)
(***************************************************************************)
EXTENDS Integers, Sequences, FiniteSets

\* ------------------------------------------------------------------ bounds
\* goroutines that call TryPass
NCallers == 2
\* TryPass calls over the whole run
MaxCalls == 3
\* the metric source reports avgRt and per-second rates in 0..MaxRate
MaxRate == 2
\* rule.Threshold of the latency and count rules ranges over 1..MaxThreshold
MaxThreshold == 1
\* rule.RtSlowRequestAmount ranges over 0..MaxTolerance
MaxTolerance == 2
\* rule.MinRequestAmount ranges over 0..MaxMinRequest
MaxMinRequest == 1

Callers == 1..NCallers
Rates == 0..MaxRate

\* ------------------------------------------------------------------- rules
AvgRt == "averageRt"
ErrRatio == "errorRatio"
ErrCount == "errorCount"
Kinds == {AvgRt, ErrRatio, ErrCount}

\* a nil *averageRtRule / *errorRatioRule / *errorCountRule
NilRule == [nil |-> TRUE]

\* the window shape handed to the metric source, <<SampleCount, IntervalInMs>>
WindowShapes == {<<2, 1000>>}

\* rule.Threshold of an errorRatioRule is a float64; the model keeps it as
\* the exact fraction num/den
RatioThresholds == {[num |-> 1, den |-> 2], [num |-> 1, den |-> 1]}

AvgRtRules ==
    [nil : {FALSE}, Resource : {"res"}, window : WindowShapes,
     Threshold : 1..MaxThreshold, RtSlowRequestAmount : 0..MaxTolerance,
     RecoverTimeout : {1}]

ErrRatioRules ==
    [nil : {FALSE}, Resource : {"res"}, window : WindowShapes,
     Threshold : RatioThresholds, MinRequestAmount : 0..MaxMinRequest,
     RecoverTimeout : {1}]

ErrCountRules ==
    [nil : {FALSE}, Resource : {"res"}, window : WindowShapes,
     Threshold : 1..MaxThreshold, RecoverTimeout : {1}]

RulesOf(k) ==
    IF k = AvgRt THEN AvgRtRules
    ELSE IF k = ErrRatio THEN ErrRatioRules
    ELSE ErrCountRules

\* ------------------------------------------------------------------- state
VARIABLES
    kind,         \* which of the three breaker types the instance is
    rule,         \* b.rule
    cut,          \* b.cut, the tripped indicator
    passCount,    \* b.passCount, the debounce counter
    metric,       \* b.metric, an interface value: its type word and data word
    nodeExists,   \* stat.GetResourceNode(rule.Resource) # nil
    pc,           \* pc[c]: where caller c is inside TryPass
    ret,          \* ret[c]: what caller c's last TryPass call returned
    touched,      \* touched[c]: the call read the metric source or the registry
    stat,         \* what the metric source returns now: AvgRT() and the GetQPS rates
    tasks,        \* the recovery goroutines started so far, each by its position
    calls,        \* TryPass calls started so far
    episode,      \* history of the metric source: "before" any violating sample,
                  \* "during" its first run of violating samples, "after" it,
                  \* and "again" once a violating sample is reported outside
                  \* that run or at or after the completion of a recovery
    admitted,     \* calls that read a violating average and returned true
                  \* since b.passCount was last stored to 0
    got           \* what the getRule() calls so far returned: <<>> before the
                  \* first call, <<r>> for a rule r

vars == <<kind, rule, cut, passCount, metric, nodeExists, pc, ret, touched,
          stat, tasks, calls, episode, admitted, got>>

\* the interface value nil, and the two words of a resolved one
NilMetric == [tab |-> FALSE, data |-> <<>>]

\* Node.GetOrCreateSlidingWindowMetric(sampleCount, intervalInMs): the metric
\* source of the node for that window shape, the same one at every call
GetOrCreateSlidingWindowMetric(sampleCount, intervalInMs) ==
    [tab |-> TRUE, data |-> <<sampleCount, intervalInMs>>]

\* what the metric source can return, by strategy: AvgRT() for the latency
\* breaker, GetQPS(MetricEventError) for the count breaker, and the four
\* rates of the ratio breaker
SamplesOver(k, R) ==
    IF k = AvgRt
    THEN [avgRt : R, err : {0}, complete : {0}, pass : {0}, block : {0}]
    ELSE IF k = ErrCount
    THEN [avgRt : {0}, err : R, complete : {0}, pass : {0}, block : {0}]
    ELSE [avgRt : {0}, err : R, complete : R, pass : R, block : R]

\* every sample over the rates 0..MaxRate
Samples(k) == SamplesOver(k, Rates)

\* the samples of a metric source that stays within the two lowest rates:
\* each strategy admits some of them and trips on others
LowSamples(k) == SamplesOver(k, {0, 1})

\* ------------------------------------------------------- strategy decisions
\* err/complete < rule.Threshold in float64, for rates that are not negative:
\* x/0 is +Inf for x > 0 and NaN for x = 0, and neither is below a threshold
QuotientBelow(err, complete, threshold) ==
    IF complete = 0 THEN FALSE
    ELSE err * threshold.den < threshold.num * complete

\* total := b.metric.GetQPS(base.MetricEventPass) + b.metric.GetQPS(base.MetricEventBlock)
Total(s) == s.pass + s.block

\* the call gets as far as the expression err/complete
ReachesDivision(s, r) ==
    /\ ~(Total(s) < r.MinRequestAmount)
    /\ ~(s.complete - s.err <= 0 /\ s.err < r.MinRequestAmount)

\* ErrorRatioAdmits with the two conditions of the realComplete guard joined
\* by "or"
ErrorRatioAdmitsEitherGuard(s, r) ==
    IF Total(s) < r.MinRequestAmount THEN TRUE
    ELSE IF s.complete - s.err <= 0 \/ s.err < r.MinRequestAmount THEN TRUE
    ELSE QuotientBelow(s.err, s.complete, r.Threshold)

\* errorRatioCircuitBreaker.TryPass between the reads and the trip: TRUE when
\* one of the three "return true" is taken
ErrorRatioAdmits(s, r) ==
    IF Total(s) < r.MinRequestAmount THEN TRUE
    ELSE IF s.complete - s.err <= 0 /\ s.err < r.MinRequestAmount THEN TRUE
    ELSE QuotientBelow(s.err, s.complete, r.Threshold)

\* ErrorCountAdmits with <= for <
ErrorCountAdmitsAtThreshold(s, r) == s.err <= r.Threshold

\* errorCountCircuitBreaker.TryPass: if err < float64(rule.Threshold) { return true }
ErrorCountAdmits(s, r) == s.err < r.Threshold

\* averageRtCircuitBreaker.TryPass: if avgRt < rule.Threshold
AvgRtBelow(s, r) == s.avgRt < r.Threshold

\* a sample the breaker's strategy counts against the resource
Violating(s) ==
    IF rule.nil THEN FALSE
    ELSE IF kind = AvgRt THEN ~AvgRtBelow(s, rule)
    ELSE IF kind = ErrRatio THEN ~ErrorRatioAdmits(s, rule)
    ELSE ~ErrorCountAdmits(s, rule)

SomeRecoveryDone == \E t \in DOMAIN tasks : tasks[t] = "done"

\* the history of the metric source after one more sample
NextEpisode(e, violating, recoveryDone) ==
    IF e = "again" THEN "again"
    ELSE IF violating
    THEN (IF recoveryDone \/ e = "after" THEN "again" ELSE "during")
    ELSE (IF e = "during" THEN "after" ELSE e)

\* ------------------------------------------------------------ constructors
\* newAverageRtCircuitBreaker, newErrorRatioCircuitBreaker,
\* newErrorCountCircuitBreaker: the metric is resolved when the resource
\* node exists at construction and left nil otherwise; cut and passCount
\* have their zero values.
NewCircuitBreaker(k, r, node) ==
    /\ kind = k
    /\ rule = r
    /\ nodeExists = node
    /\ metric = IF node
                THEN GetOrCreateSlidingWindowMetric(r.window[1], r.window[2])
                ELSE NilMetric
    /\ cut = FALSE
    /\ passCount = 0

\* newAverageRtCircuitBreakerWithMetric, newErrorRatioCircuitBreakerWithMetric,
\* newErrorCountCircuitBreakerWithMetric: rule and metric as given.  These
\* take a nil rule, which the other constructors dereference.
NewCircuitBreakerWithMetric(k, r, m, node) ==
    /\ kind = k
    /\ rule = r
    /\ nodeExists = node
    /\ metric = m
    /\ cut = FALSE
    /\ passCount = 0

\* the breaker as constructed, no call made yet, the metric source at one of
\* the samples S
InitOver(S) ==
    /\ \E k \in Kinds : \E node \in BOOLEAN :
          \/ \E r \in RulesOf(k) : NewCircuitBreaker(k, r, node)
          \/ \E w \in WindowShapes :
               \E m \in {NilMetric, GetOrCreateSlidingWindowMetric(w[1], w[2])} :
                  NewCircuitBreakerWithMetric(k, NilRule, m, node)
    /\ stat \in S[kind]
    /\ pc = [c \in Callers |-> "idle"]
    /\ ret = [c \in Callers |-> "none"]
    /\ touched = [c \in Callers |-> FALSE]
    /\ tasks = <<>>
    /\ calls = 0
    /\ episode = NextEpisode("before", Violating(stat), FALSE)
    /\ admitted = 0
    /\ got = <<>>

Init == InitOver([k \in Kinds |-> LowSamples(k)])

\* ------------------------------------------------------------------ getRule
\* getRule with the side effect of unbinding the rule it returns
getRuleUnbinds ==
    /\ got' = <<rule>>
    /\ rule' = NilRule
    /\ UNCHANGED <<kind, cut, passCount, metric, nodeExists, pc, ret, touched,
                   stat, tasks, calls, episode, admitted>>

\* func (b *averageRtCircuitBreaker) getRule() base.Rule { return b.rule },
\* and the same method of the other two breakers
getRule ==
    /\ got' = <<rule>>
    /\ UNCHANGED <<kind, rule, cut, passCount, metric, nodeExists, pc, ret,
                   touched, stat, tasks, calls, episode, admitted>>

\* ------------------------------------------------------------ TryPass steps
\* "return x" of TryPass
Return(c, r) ==
    /\ pc' = [pc EXCEPT ![c] = "idle"]
    /\ ret' = [ret EXCEPT ![c] = r]

\* a goroutine enters TryPass
Call(c) ==
    /\ pc[c] = "idle"
    /\ calls < MaxCalls
    /\ calls' = calls + 1
    /\ pc' = [pc EXCEPT ![c] = "open"]
    /\ ret' = [ret EXCEPT ![c] = "none"]
    /\ touched' = [touched EXCEPT ![c] = FALSE]
    /\ UNCHANGED <<kind, rule, cut, passCount, metric, nodeExists, stat, tasks,
                   episode, admitted, got>>

\* OpenCheck without its first statement: the call goes on to the metric
\* although the breaker is open
OpenCheckSkipsCut(c) ==
    /\ pc[c] = "open"
    /\ IF rule.nil THEN Return(c, "pass")
       ELSE /\ pc' = [pc EXCEPT ![c] = "nilcheck"]
            /\ UNCHANGED ret
    /\ UNCHANGED <<kind, rule, cut, passCount, metric, nodeExists, touched,
                   stat, tasks, calls, episode, admitted, got>>

\* OpenCheck that lets one probe through: the call that finds the breaker
\* open is rejected and closes it for the next one
OpenCheckClosesBreaker(c) ==
    /\ pc[c] = "open"
    /\ IF cut THEN /\ Return(c, "block")
                   /\ cut' = FALSE
       ELSE IF rule.nil THEN /\ Return(c, "pass")
                             /\ UNCHANGED cut
       ELSE /\ pc' = [pc EXCEPT ![c] = "nilcheck"]
            /\ UNCHANGED <<ret, cut>>
    /\ UNCHANGED <<kind, rule, passCount, metric, nodeExists, touched,
                   stat, tasks, calls, episode, admitted, got>>

\* OpenCheck with the nil rule treated as a rule that rejects
OpenCheckRejectsNilRule(c) ==
    /\ pc[c] = "open"
    /\ IF cut \/ rule.nil THEN Return(c, "block")
       ELSE /\ pc' = [pc EXCEPT ![c] = "nilcheck"]
            /\ UNCHANGED ret
    /\ UNCHANGED <<kind, rule, cut, passCount, metric, nodeExists, touched,
                   stat, tasks, calls, episode, admitted, got>>

\* if b.cut.Get() { return false }; rule := b.rule; if rule == nil { return true }
OpenCheck(c) ==
    /\ pc[c] = "open"
    /\ IF cut THEN Return(c, "block")
       ELSE IF rule.nil THEN Return(c, "pass")
       ELSE /\ pc' = [pc EXCEPT ![c] = "nilcheck"]
            /\ UNCHANGED ret
    /\ UNCHANGED <<kind, rule, cut, passCount, metric, nodeExists, touched,
                   stat, tasks, calls, episode, admitted, got>>

\* if b.metric == nil: an interface value is nil when its type word is
NilCheck(c) ==
    /\ pc[c] = "nilcheck"
    /\ pc' = [pc EXCEPT ![c] = IF metric.tab THEN "read" ELSE "lookup"]
    /\ UNCHANGED <<kind, rule, cut, passCount, metric, nodeExists, ret, touched,
                   stat, tasks, calls, episode, admitted, got>>

\* Resolve failing closed: the call is rejected when the resource has no node
ResolveFailsClosed(c) ==
    /\ pc[c] = "lookup"
    /\ touched' = [touched EXCEPT ![c] = TRUE]
    /\ IF ~nodeExists
       THEN /\ Return(c, "block")
            /\ UNCHANGED metric
       ELSE /\ metric' = GetOrCreateSlidingWindowMetric(rule.window[1], rule.window[2])
            /\ pc' = [pc EXCEPT ![c] = "read"]
            /\ UNCHANGED ret
    /\ UNCHANGED <<kind, rule, cut, passCount, nodeExists, stat, tasks, calls,
                   episode, admitted, got>>

\* resNode := stat.GetResourceNode(rule.Resource); if resNode == nil { return
\* true }; b.metric = resNode.GetOrCreateSlidingWindowMetric(...).  The store
\* to b.metric is not synchronised and an interface value is two words: the
\* first word (either one) is stored here, the other by StoreMetric.
Resolve(c) ==
    /\ pc[c] = "lookup"
    /\ touched' = [touched EXCEPT ![c] = TRUE]
    /\ IF ~nodeExists
       THEN /\ Return(c, "pass")
            /\ UNCHANGED metric
       ELSE LET m == GetOrCreateSlidingWindowMetric(rule.window[1], rule.window[2])
            IN  \E first \in {"tab", "data"} :
                  /\ metric' = IF first = "tab"
                               THEN [metric EXCEPT !.tab = m.tab]
                               ELSE [metric EXCEPT !.data = m.data]
                  /\ pc' = [pc EXCEPT ![c] = IF first = "tab" THEN "store_data"
                                             ELSE "store_tab"]
                  /\ UNCHANGED ret
    /\ UNCHANGED <<kind, rule, cut, passCount, nodeExists, stat, tasks, calls,
                   episode, admitted, got>>

\* the second word of the store b.metric = ...
StoreMetric(c) ==
    /\ pc[c] \in {"store_tab", "store_data"}
    /\ LET m == GetOrCreateSlidingWindowMetric(rule.window[1], rule.window[2])
       IN  metric' = IF pc[c] = "store_tab"
                     THEN [metric EXCEPT !.tab = m.tab]
                     ELSE [metric EXCEPT !.data = m.data]
    /\ pc' = [pc EXCEPT ![c] = "read"]
    /\ UNCHANGED <<kind, rule, cut, passCount, nodeExists, ret, touched, stat,
                   tasks, calls, episode, admitted, got>>

\* ---------------------------------------------------------- the decisions
\* EvaluateAvgRt with the tolerance test on the counter before the increment
EvaluateAvgRtStaleCount(c) ==
    IF AvgRtBelow(stat, rule)
    THEN /\ passCount' = 0
         /\ admitted' = 0
         /\ Return(c, "pass")
    ELSE /\ passCount' = passCount + 1
         /\ IF passCount < rule.RtSlowRequestAmount
            THEN /\ admitted' = admitted + 1
                 /\ Return(c, "pass")
            ELSE /\ pc' = [pc EXCEPT ![c] = "trip"]
                 /\ UNCHANGED <<ret, admitted>>

\* EvaluateAvgRt with the increment lost: the counter is read and tested, and
\* the new value is never stored
EvaluateAvgRtLostIncrement(c) ==
    IF AvgRtBelow(stat, rule)
    THEN /\ passCount' = 0
         /\ admitted' = 0
         /\ Return(c, "pass")
    ELSE /\ passCount' = passCount
         /\ IF passCount + 1 < rule.RtSlowRequestAmount
            THEN /\ admitted' = admitted + 1
                 /\ Return(c, "pass")
            ELSE /\ pc' = [pc EXCEPT ![c] = "trip"]
                 /\ UNCHANGED <<ret, admitted>>

\* averageRtCircuitBreaker.TryPass from avgRt := b.metric.AvgRT() to the trip:
\* atomic.StoreInt64(&b.passCount, 0) and return true, or
\* util.IncrementAndGetInt64(&b.passCount) and return true below the tolerance
EvaluateAvgRt(c) ==
    IF AvgRtBelow(stat, rule)
    THEN /\ passCount' = 0
         /\ admitted' = 0
         /\ Return(c, "pass")
    ELSE /\ passCount' = passCount + 1
         /\ IF passCount' < rule.RtSlowRequestAmount
            THEN /\ admitted' = admitted + 1
                 /\ Return(c, "pass")
            ELSE /\ pc' = [pc EXCEPT ![c] = "trip"]
                 /\ UNCHANGED <<ret, admitted>>

\* errorRatioCircuitBreaker.TryPass from the four GetQPS reads to the trip
EvaluateErrorRatio(c) ==
    /\ IF ErrorRatioAdmits(stat, rule)
       THEN Return(c, "pass")
       ELSE /\ pc' = [pc EXCEPT ![c] = "trip"]
            /\ UNCHANGED ret
    /\ UNCHANGED <<passCount, admitted>>

\* EvaluateErrorCount rejecting on its own: return false at the threshold
\* without going through the compare-and-swap
EvaluateErrorCountRejects(c) ==
    /\ IF ErrorCountAdmits(stat, rule)
       THEN Return(c, "pass")
       ELSE Return(c, "block")
    /\ UNCHANGED <<passCount, admitted>>

\* errorCountCircuitBreaker.TryPass from the GetQPS read to the trip
EvaluateErrorCount(c) ==
    /\ IF ErrorCountAdmits(stat, rule)
       THEN Return(c, "pass")
       ELSE /\ pc' = [pc EXCEPT ![c] = "trip"]
            /\ UNCHANGED ret
    /\ UNCHANGED <<passCount, admitted>>

\* b.metric.AvgRT() / b.metric.GetQPS(...) and the decision taken on what it
\* returns.  The method is found through the type word and runs on the data
\* word: on a half-stored interface value the receiver is nil and the call
\* panics with a nil dereference.
Evaluate(c) ==
    /\ pc[c] = "read"
    /\ IF metric.data = <<>>
       THEN /\ Return(c, "panic")
            /\ UNCHANGED <<touched, passCount, admitted>>
       ELSE /\ touched' = [touched EXCEPT ![c] = TRUE]
            /\ IF kind = AvgRt THEN EvaluateAvgRt(c)
               ELSE IF kind = ErrRatio THEN EvaluateErrorRatio(c)
               ELSE EvaluateErrorCount(c)
    /\ UNCHANGED <<kind, rule, cut, metric, nodeExists, stat, tasks, calls,
                   episode, got>>

\* b.cut.CompareAndSet(false, true)
CompareAndSet(old, new) ==
    IF cut = old THEN cut' = new ELSE cut' = cut

\* Trip as the acquisition of a lock: the caller waits until the indicator is
\* false and then sets it
TripWaitsUntilClosed(c) ==
    /\ pc[c] = "trip"
    /\ cut = FALSE
    /\ cut' = TRUE
    /\ tasks' = Append(tasks, "sleep")
    /\ Return(c, "block")
    /\ UNCHANGED <<kind, rule, passCount, metric, nodeExists, touched, stat,
                   calls, episode, admitted, got>>

\* Trip with the go statement outside the if: a caller whose compare-and-swap
\* fails starts a recovery task all the same
TripStartsTaskAnyway(c) ==
    /\ pc[c] = "trip"
    /\ CompareAndSet(FALSE, TRUE)
    /\ tasks' = Append(tasks, "sleep")
    /\ Return(c, "block")
    /\ UNCHANGED <<kind, rule, passCount, metric, nodeExists, touched, stat,
                   calls, episode, admitted, got>>

\* Trip with a plain store in place of the compare-and-swap: every caller
\* that gets here sets the indicator and starts a recovery task
TripWithoutCompare(c) ==
    /\ pc[c] = "trip"
    /\ cut' = TRUE
    /\ tasks' = Append(tasks, "sleep")
    /\ Return(c, "block")
    /\ UNCHANGED <<kind, rule, passCount, metric, nodeExists, touched, stat,
                   calls, episode, admitted, got>>

\* if b.cut.CompareAndSet(false, true) { go util.RunWithRecover(...) }; return
\* false.  The go statement touches no field of the breaker, so the winner's
\* compare-and-swap and its go statement are one step.
Trip(c) ==
    /\ pc[c] = "trip"
    /\ CompareAndSet(FALSE, TRUE)
    /\ tasks' = IF cut = FALSE THEN Append(tasks, "sleep") ELSE tasks
    /\ Return(c, "block")
    /\ UNCHANGED <<kind, rule, passCount, metric, nodeExists, touched, stat,
                   calls, episode, admitted, got>>

\* ------------------------------------------------------- the recovery task
\* time.Sleep(time.Second * time.Duration(rule.RecoverTimeout)) returns
RecoverSleep(t) ==
    /\ t \in DOMAIN tasks
    /\ tasks[t] = "sleep"
    /\ tasks' = [tasks EXCEPT ![t] = IF kind = AvgRt THEN "store" ELSE "set"]
    /\ UNCHANGED <<kind, rule, cut, passCount, metric, nodeExists, pc, ret,
                   touched, stat, calls, episode, admitted, got>>

\* RecoverStore taking back one violation in place of storing 0
RecoverStoreDecrements(t) ==
    /\ t \in DOMAIN tasks
    /\ tasks[t] = "store"
    /\ passCount' = passCount - 1
    /\ admitted' = 0
    /\ tasks' = [tasks EXCEPT ![t] = "set"]
    /\ UNCHANGED <<kind, rule, cut, metric, nodeExists, pc, ret, touched, stat,
                   calls, episode, got>>

\* atomic.StoreInt64(&b.passCount, 0), in the latency breaker's task only
RecoverStore(t) ==
    /\ t \in DOMAIN tasks
    /\ tasks[t] = "store"
    /\ passCount' = 0
    /\ admitted' = 0
    /\ tasks' = [tasks EXCEPT ![t] = "set"]
    /\ UNCHANGED <<kind, rule, cut, metric, nodeExists, pc, ret, touched, stat,
                   calls, episode, got>>

\* a recovery task that ends without b.cut.Set(false)
RecoverSetForgotten(t) ==
    /\ t \in DOMAIN tasks
    /\ tasks[t] = "set"
    /\ tasks' = [tasks EXCEPT ![t] = "done"]
    /\ UNCHANGED <<kind, rule, cut, passCount, metric, nodeExists, pc, ret,
                   touched, stat, calls, episode, admitted, got>>

\* b.cut.Set(false); the task is over.  episode notes a metric source that
\* still reports a violating sample at this moment.
RecoverSet(t) ==
    /\ t \in DOMAIN tasks
    /\ tasks[t] = "set"
    /\ cut' = FALSE
    /\ tasks' = [tasks EXCEPT ![t] = "done"]
    /\ episode' = IF Violating(stat) THEN "again" ELSE episode
    /\ UNCHANGED <<kind, rule, passCount, metric, nodeExists, pc, ret, touched,
                   stat, calls, admitted, got>>

\* The function handed to util.RunWithRecover panics before b.cut.Set(false):
\* RunWithRecover recovers and logs the panic in the task's own goroutine, and
\* the goroutine ends there.
RecoverFault(t) ==
    /\ t \in DOMAIN tasks
    /\ tasks[t] \in {"sleep", "store", "set"}
    /\ tasks' = [tasks EXCEPT ![t] = "failed"]
    /\ UNCHANGED <<kind, rule, cut, passCount, metric, nodeExists, pc, ret,
                   touched, stat, calls, episode, admitted, got>>

\* ---------------------------------------------------------- the environment
\* the resource produces its first traffic and the registry gets its node
RegisterNode ==
    /\ ~nodeExists
    /\ nodeExists' = TRUE
    /\ UNCHANGED <<kind, rule, cut, passCount, metric, pc, ret, touched, stat,
                   tasks, calls, episode, admitted, got>>

\* the sliding window moves: one of the aggregates of the metric source
\* changes, within the rates R
WindowMoves(R) ==
    /\ \E f \in DOMAIN stat : \E v \in R \ {stat[f]} :
          LET s == [stat EXCEPT ![f] = v]
          IN  /\ s \in SamplesOver(kind, R)
              /\ stat' = s
              /\ episode' = NextEpisode(episode, Violating(s), SomeRecoveryDone)
    /\ UNCHANGED <<kind, rule, cut, passCount, metric, nodeExists, pc, ret,
                   touched, tasks, calls, admitted, got>>

TryPass(c) ==
    \/ Call(c)
    \/ OpenCheck(c)
    \/ NilCheck(c)
    \/ Resolve(c)
    \/ StoreMetric(c)
    \/ Evaluate(c)
    \/ Trip(c)

Recover(t) ==
    \/ RecoverSleep(t)
    \/ RecoverStore(t)
    \/ RecoverSet(t)

\* any number of goroutines inside TryPass at once
Next ==
    \/ \E c \in Callers : TryPass(c)
    \/ \E t \in 1..MaxCalls : Recover(t)
    \/ RegisterNode
    \/ WindowMoves({0, 1})

Spec == Init /\ [][Next]_vars

\* The Go scheduler runs every goroutine that can run: a started recovery
\* task takes its next step.  Nothing is assumed of the callers, of the
\* metric source or of the resource registry.
FairSpec == Spec /\ \A t \in 1..MaxCalls : WF_vars(Recover(t))

\* One goroutine calls TryPass, one call after the other, and the metric
\* source ranges over every sample: the specification of the claims about
\* what one call decides.
SeqInit == InitOver([k \in Kinds |-> Samples(k)])

SeqNext ==
    \/ TryPass(1)
    \/ \E t \in 1..MaxCalls : Recover(t)
    \/ RegisterNode
    \/ WindowMoves(Rates)

SeqSpec == SeqInit /\ [][SeqNext]_vars

\* One goroutine calls TryPass and getRule in any order.
RuleNext ==
    \/ SeqNext
    \/ getRule

RuleSpec == SeqInit /\ [][RuleNext]_vars

\* The breaker with recovery tasks that may fault.
FaultNext ==
    \/ Next
    \/ \E t \in 1..MaxCalls : RecoverFault(t)

FaultSpec == Init /\ [][FaultNext]_vars

\* ================================================================== claims
\* caller c takes the step it has at location p
StepAt(c, p) == pc[c] = p /\ pc'[c] # p

\* recovery tasks that have been started and have not yet run b.cut.Set(false)
Pending == {t \in DOMAIN tasks : tasks[t] # "done"}

\* the step of caller c returns true and leaves the breaker as it was
Admits(c) ==
    /\ pc'[c] = "idle"
    /\ ret'[c] = "pass"
    /\ cut' = cut
    /\ passCount' = passCount
    /\ tasks' = tasks
    /\ metric' = metric

\* the trip of section 4.2 as caller c performs it at its compare-and-swap:
\* the indicator is true afterwards, a recovery task is pending, and the
\* call returns false
Trips(c) ==
    StepAt(c, "trip") =>
        /\ cut'
        /\ ret'[c] = "block"
        /\ \E t \in DOMAIN tasks' : tasks'[t] # "done"

\* C1: in all three strategies a TryPass call that finds the tripped
\* indicator true at its open check returns false in that very step, having
\* read neither the metric source nor the registry, and leaves the indicator,
\* the debounce counter, the metric reference and the recovery tasks as they
\* were.
C1_OpenRejectsWithoutReading ==
    [][\A c \in Callers :
          (StepAt(c, "open") /\ cut) =>
              /\ pc'[c] = "idle"
              /\ ret'[c] = "block"
              /\ touched'[c] = FALSE
              /\ cut' = cut
              /\ passCount' = passCount
              /\ metric' = metric
              /\ tasks' = tasks]_vars

\* a call was rejected at the open check of an open breaker
C1_Witness ==
    \E c \in Callers : cut /\ pc[c] = "idle" /\ ret[c] = "block" /\ ~touched[c]

\* C2: exactly one recovery task is started per closed->open transition: a
\* step starts a task if and only if it takes the indicator from false to
\* true, and then it starts exactly one; at most one started task is pending
\* at any time; a caller whose compare-and-swap finds the indicator already
\* true starts nothing, leaves the indicator alone and returns false.
C2_OneRecoveryPerTrip ==
    /\ [](Cardinality(Pending) <= 1)
    /\ [][/\ (~cut /\ cut') <=> (Len(tasks') = Len(tasks) + 1)
          /\ Len(tasks') \in {Len(tasks), Len(tasks) + 1}
          /\ \A c \in Callers :
                (StepAt(c, "trip") /\ cut) =>
                    /\ cut' = cut
                    /\ tasks' = tasks
                    /\ ret'[c] = "block"]_vars

\* two callers went through the compare-and-swap while one recovery task,
\* the only one ever started, was pending
C2_Witness ==
    \E c, d \in Callers :
        /\ c # d
        /\ pc[c] = "idle" /\ ret[c] = "block" /\ touched[c]
        /\ pc[d] = "idle" /\ ret[d] = "block" /\ touched[d]
        /\ tasks = <<"sleep">>
        /\ cut

\* C3: in every strategy a tripped indicator becomes false again, given only
\* that the recovery task is run; no caller has to take a step and the
\* metric source may report anything.
C3_AutonomousRecovery == cut ~> ~cut

\* the indicator has been true and a recovery task has closed the breaker
C3_Witness ==
    \E t \in DOMAIN tasks : tasks[t] = "done" /\ ~cut

\* C4: in the latency breaker (here with a tolerance of at least 1) the
\* debounce counter is 0 in the state in which a recovery task has just set
\* the indicator back to false.
C4_CounterZeroAtRecovery ==
    [][(kind = AvgRt /\ ~rule.nil /\ rule.RtSlowRequestAmount >= 1 /\ cut /\ ~cut')
          => passCount' = 0]_vars

\* C5: when the metric source reports violating samples in one run only, and
\* that run is over before a recovery completes, the breaker trips at most
\* once (stated for the count breaker, the simplest of the three).
C5_OneTripPerEpisode ==
    (kind = ErrCount /\ episode # "again") => Len(tasks) <= 1


\* the call of caller c is about to read a resolved metric source
Reads(c) == StepAt(c, "read") /\ metric.data # <<>>

\* the larger of two integers
Max(a, b) == IF a >= b THEN a ELSE b

\* C6: the latency decision with tolerance T = RtSlowRequestAmount.  A call
\* that reads an average below the threshold stores 0 in the counter and
\* returns true; a call that reads an average at or above it adds exactly one
\* to the counter and returns true when the new value is below T, and
\* otherwise trips and returns false.  For one caller and before the first
\* trip the counter therefore counts the violating calls in a row: the call
\* that is about to trip is the T-th (the first when T is 0), every earlier
\* one was admitted, and a call that finds the breaker open returns false
\* whatever the average is by then.
C6_AvgRtDecision ==
    /\ []((kind = AvgRt /\ ~rule.nil /\ tasks = <<>>) =>
             IF pc[1] = "trip"
             THEN passCount = Max(rule.RtSlowRequestAmount, 1)
             ELSE passCount < Max(rule.RtSlowRequestAmount, 1))
    /\ [][\A c \in Callers : kind = AvgRt =>
             /\ Reads(c) =>
                   IF stat.avgRt < rule.Threshold
                   THEN /\ passCount' = 0
                        /\ pc'[c] = "idle" /\ ret'[c] = "pass"
                        /\ cut' = cut /\ tasks' = tasks
                   ELSE /\ passCount' = passCount + 1
                        /\ IF passCount + 1 < rule.RtSlowRequestAmount
                           THEN /\ pc'[c] = "idle" /\ ret'[c] = "pass"
                                /\ cut' = cut /\ tasks' = tasks
                           ELSE pc'[c] = "trip"
             /\ Trips(c)
             /\ (StepAt(c, "open") /\ cut) => ret'[c] = "block"]_vars

\* tolerance 2: the first violating call was admitted, the second tripped,
\* and the third was rejected although the average is below the threshold
C6_Witness ==
    /\ kind = AvgRt /\ ~rule.nil
    /\ rule.RtSlowRequestAmount = 2
    /\ calls = 3
    /\ tasks = <<"sleep">> /\ cut
    /\ pc[1] = "idle" /\ ret[1] = "block" /\ ~touched[1]
    /\ stat.avgRt < rule.Threshold

\* C7: the ratio decision, for every sample and every rule.  The call admits
\* and changes nothing when pass+block < MinRequestAmount; else admits when
\* complete-error <= 0 and error < MinRequestAmount; else admits when
\* error/complete, taken as the float64 quotient, is below the threshold;
\* and in every other case goes on to trip and returns false.
C7_ErrorRatioDecision ==
    [][\A c \in Callers : kind = ErrRatio =>
          /\ Reads(c) =>
                IF stat.pass + stat.block < rule.MinRequestAmount THEN Admits(c)
                ELSE IF stat.complete - stat.err <= 0 /\ stat.err < rule.MinRequestAmount
                THEN Admits(c)
                ELSE IF QuotientBelow(stat.err, stat.complete, rule.Threshold)
                THEN Admits(c)
                ELSE pc'[c] = "trip"
          /\ Trips(c)]_vars

\* error 1 of complete 2 with threshold 0.5 and enough traffic: the ratio is
\* at the threshold and the call is at its trip
C7_Witness ==
    /\ kind = ErrRatio /\ ~rule.nil
    /\ rule.Threshold = [num |-> 1, den |-> 2]
    /\ stat.err = 1 /\ stat.complete = 2
    /\ stat.pass + stat.block >= rule.MinRequestAmount
    /\ pc[1] = "trip"

\* C8: a ratio call that gets as far as err/complete has a complete rate
\* that is not zero.
C8_DivisionGuarded ==
    [][\A c \in Callers :
          (kind = ErrRatio /\ Reads(c) /\ ReachesDivision(stat, rule))
              => stat.complete # 0]_vars

\* C9: the count decision.  The call returns true and changes nothing if and
\* only if the error rate is below the threshold; at or above it the call
\* goes on to trip and returns false, whatever the pass and block rates are.
C9_ErrorCountDecision ==
    [][\A c \in Callers : kind = ErrCount =>
          /\ Reads(c) =>
                /\ (stat.err < rule.Threshold) <=> Admits(c)
                /\ (stat.err >= rule.Threshold) => pc'[c] = "trip"
          /\ Trips(c)]_vars

\* an error rate equal to the threshold, no pass or block traffic, and the
\* breaker has tripped on it
C9_Witness ==
    /\ kind = ErrCount /\ ~rule.nil
    /\ stat.err = rule.Threshold
    /\ stat.pass + stat.block = 0
    /\ pc[1] = "idle" /\ ret[1] = "block" /\ touched[1]
    /\ calls = 1 /\ cut

\* C10: fail-open on an unresolved metric source, in every strategy.  A call
\* that finds b.metric nil and no node for the resource returns true, leaves
\* indicator, counter and recovery tasks alone, and leaves b.metric nil, so
\* that the next call looks the node up again; a call that finds the node
\* stores the node's metric source in b.metric and goes on to read it, and a
\* call that reads a fully stored b.metric evaluates its strategy.
C10_FailOpenUnresolved ==
    [][\A c \in Callers :
          /\ (StepAt(c, "lookup") /\ ~nodeExists) =>
                /\ Admits(c)
                /\ metric' = NilMetric
          /\ (StepAt(c, "nilcheck") /\ metric = NilMetric) => pc'[c] = "lookup"
          /\ (StepAt(c, "lookup") /\ nodeExists) =>
                pc'[c] \in {"store_tab", "store_data"}
          /\ (StepAt(c, "store_tab") \/ StepAt(c, "store_data")) =>
                /\ metric' = GetOrCreateSlidingWindowMetric(rule.window[1], rule.window[2])
                /\ pc'[c] = "read"
          /\ (StepAt(c, "read") /\ metric.tab /\ metric.data # <<>>) =>
                /\ touched'[c]
                /\ ret'[c] # "panic"
                /\ metric' = metric]_vars

\* a call has failed open (b.metric is still nil) and the node has appeared
\* since: the next call will resolve the metric
C10_Witness ==
    \E c \in Callers :
        /\ ~rule.nil
        /\ pc[c] = "idle" /\ ret[c] = "pass" /\ touched[c]
        /\ metric = NilMetric
        /\ nodeExists

\* C11: a breaker constructed with a nil rule is disabled.  In every
\* reachable state of such a breaker the indicator is false, the counter is 0,
\* no recovery task has been started and no call has returned anything but
\* true; and every call returns true at its open check, whatever the metric
\* source reports and whatever the other callers do.
C11_NilRuleDisabled ==
    /\ [](rule.nil =>
             /\ cut = FALSE
             /\ passCount = 0
             /\ tasks = <<>>
             /\ \A c \in Callers : ret[c] \in {"none", "pass"}
             /\ \A c \in Callers : pc[c] \in {"idle", "open"})
    /\ [][\A c \in Callers :
             (rule.nil /\ StepAt(c, "open")) =>
                 /\ pc'[c] = "idle"
                 /\ ret'[c] = "pass"
                 /\ touched'[c] = FALSE]_vars

\* all the calls of the run were made on a nil-rule breaker, by two callers,
\* while the metric source reported a rate that is not zero
C11_Witness ==
    \E c, d \in Callers :
        /\ c # d
        /\ rule.nil
        /\ calls = MaxCalls
        /\ pc[c] = "idle" /\ ret[c] = "pass"
        /\ pc[d] = "idle" /\ ret[d] = "pass"
        /\ \E f \in DOMAIN stat : stat[f] # 0

\* a recovery task has ended in a panic
Faulted == {t \in DOMAIN tasks : tasks[t] = "failed"}

\* C12: a recovery task that faults before it has set the indicator to false
\* is not replaced.  From the fault on the indicator is true and the faulted
\* task is the last task ever started; every call that reaches its open check
\* after the fault returns false there; and the fault itself changes nothing
\* of any caller: no call is ended or given a result by it.
C12_FaultedTaskNotRearmed ==
    /\ [](\A t \in Faulted : cut /\ t = Len(tasks))
    /\ [][/\ \A c \in Callers :
                (Faulted # {} /\ StepAt(c, "open")) =>
                    /\ pc'[c] = "idle"
                    /\ ret'[c] = "block"
          /\ (Faulted' # Faulted) =>
                /\ pc' = pc
                /\ ret' = ret
                /\ cut' = cut
                /\ Len(tasks') = Len(tasks)]_vars

\* the second recovery task of the run has faulted, after the first had
\* completed, and a call made since then was rejected at the open check
C12_Witness ==
    \E c \in Callers :
        /\ tasks = <<"done", "failed">>
        /\ calls = MaxCalls
        /\ pc[c] = "idle" /\ ret[c] = "block" /\ ~touched[c]

\* the next step of a call that caller c has begun
Continue(c) ==
    \/ OpenCheck(c)
    \/ NilCheck(c)
    \/ Resolve(c)
    \/ StoreMetric(c)
    \/ Evaluate(c)
    \/ Trip(c)

\* how many steps of its own a caller at location p has left, at most
StepsLeft(p) ==
    IF p = "idle" THEN 0
    ELSE IF p = "trip" THEN 1
    ELSE IF p = "read" THEN 2
    ELSE IF p \in {"store_tab", "store_data"} THEN 3
    ELSE IF p = "lookup" THEN 4
    ELSE IF p = "nilcheck" THEN 5
    ELSE 6

\* C13: TryPass never blocks.  A caller inside TryPass can always take its
\* next step, whatever the other callers have done and whether the recovery
\* tasks run, sleep or have faulted; each of its steps brings it nearer to its
\* return, which comes after six steps at most; and the caller that wins the
\* compare-and-swap returns false in that very step, with the recovery task
\* it started still in its timed wait.
C13_TryPassNeverBlocks ==
    /\ [](\A c \in Callers : pc[c] # "idle" => ENABLED Continue(c))
    /\ [][\A c \in Callers :
             /\ (pc[c] # "idle" /\ pc'[c] # pc[c]) =>
                    StepsLeft(pc'[c]) < StepsLeft(pc[c])
             /\ (StepAt(c, "trip") /\ ~cut) =>
                    /\ pc'[c] = "idle"
                    /\ ret'[c] = "block"
                    /\ tasks'[Len(tasks')] = "sleep"]_vars

\* the winner of the compare-and-swap has returned while the task it started
\* is still asleep, and another caller is at its own compare-and-swap
C13_Witness ==
    \E c, d \in Callers :
        /\ c # d
        /\ pc[c] = "idle" /\ ret[c] = "block" /\ touched[c]
        /\ tasks = <<"sleep">>
        /\ pc[d] = "trip"

\* C14: the rule bound to the breaker never changes.  No step of a TryPass
\* call, of a recovery task or of getRule changes b.rule or the breaker's
\* type; every getRule call returns the rule the breaker was constructed
\* with, the same one each time; and a getRule call changes nothing of the
\* breaker, of the callers or of the recovery tasks.
C14_RuleImmutable ==
    /\ [](got \in {<<>>, <<rule>>})
    /\ [][/\ rule' = rule
          /\ kind' = kind
          /\ (got' # got) =>
                /\ got' = <<rule>>
                /\ UNCHANGED <<cut, passCount, metric, nodeExists, pc, ret,
                               touched, stat, tasks, calls>>]_vars

\* getRule has returned the rule of a breaker that has tripped and recovered
C14_Witness ==
    /\ ~rule.nil
    /\ got = <<rule>>
    /\ tasks = <<"done">>
    /\ ~cut

\* C15: lazy resolution is safe to race.  Every caller that found b.metric
\* nil and the node present stores the node's metric source for the rule's
\* window and goes on to read it; every call that gets as far as reading
\* b.metric evaluates its strategy on that source; and once that source is
\* stored b.metric does not change again.
C15_LazyResolutionSafe ==
    [][\A c \in Callers :
          LET m == GetOrCreateSlidingWindowMetric(rule.window[1], rule.window[2])
          IN  /\ (StepAt(c, "store_tab") \/ StepAt(c, "store_data")) =>
                    /\ metric' = m
                    /\ pc'[c] = "read"
              /\ StepAt(c, "read") =>
                    /\ metric = m
                    /\ touched'[c]
                    /\ ret'[c] # "panic"
              /\ (~rule.nil /\ metric = m) => metric' = m]_vars

\* C16: the debounce counter is never negative, in any strategy: it is 0 at
\* construction and every step leaves it alone, adds one to it or stores 0;
\* the ratio and count breakers never write it, so there it is always 0.
C16_CounterNeverNegative ==
    /\ [](passCount >= 0)
    /\ [](kind # AvgRt => passCount = 0)
    /\ [][passCount' \in {passCount, passCount + 1, 0}]_vars

\* the counter of a latency breaker has been incremented twice and a
\* recovery task is about to store 0 in it
C16_Witness ==
    /\ kind = AvgRt
    /\ passCount = 2
    /\ \E t \in DOMAIN tasks : tasks[t] = "store"

\* C17: in the latency breaker with tolerance T >= 1, at most T-1 calls that
\* read a violating average have returned true since the counter was last
\* stored to 0 (or since construction), however the callers interleave.  Each
\* violating call adds one to the counter in one atomic step, so no two of
\* them get the same new value, and a call whose new value is T or more goes
\* on to its compare-and-swap and returns false.
C17_AdmittedWithinTolerance ==
    /\ []((kind = AvgRt /\ ~rule.nil /\ rule.RtSlowRequestAmount >= 1) =>
             admitted <= rule.RtSlowRequestAmount - 1)
    /\ [][\A c \in Callers :
             (kind = AvgRt /\ Reads(c) /\ stat.avgRt >= rule.Threshold) =>
                 /\ passCount' = passCount + 1
                 /\ (passCount' >= rule.RtSlowRequestAmount) => pc'[c] = "trip"
                 /\ (passCount' < rule.RtSlowRequestAmount) => ret'[c] = "pass"]_vars
    /\ [][\A c \in Callers : StepAt(c, "trip") => ret'[c] = "block"]_vars

\* tolerance 2 and three violating calls since the last store of 0: one of
\* them was admitted
C17_Witness ==
    /\ kind = AvgRt /\ ~rule.nil
    /\ rule.RtSlowRequestAmount = 2
    /\ passCount = 3
    /\ admitted = 1
    /\ \E c, d \in Callers : c # d /\ touched[c] /\ touched[d]

\* C18: the indicator changes in two ways only, in every strategy.  It goes
\* from false to true in the compare-and-swap of a caller whose call has read
\* the metric source and found a violating sample, and that step starts a
\* recovery task; it goes from true to false in the last step of the most
\* recently started recovery task, the one started by the trip that set it.
\* No step of a TryPass call takes it from true to false and no step of a
\* recovery task takes it from false to true.
C18_IndicatorTransitions ==
    [][/\ (~cut /\ cut') =>
              /\ \E c \in Callers : StepAt(c, "trip") /\ touched[c]
              /\ tasks' = Append(tasks, "sleep")
       /\ (cut /\ ~cut') =>
              /\ pc' = pc
              /\ tasks # <<>>
              /\ tasks[Len(tasks)] = "set"
              /\ tasks' = [tasks EXCEPT ![Len(tasks)] = "done"]
       /\ \A c \in Callers :
              (pc[c] # "trip" /\ pc'[c] = "trip") =>
                  /\ StepAt(c, "read")
                  /\ Violating(stat)
       /\ (pc' # pc) => (cut => cut')
       /\ (tasks' # tasks /\ pc' = pc) => (cut' => cut)]_vars

\* the breaker has tripped, recovered and tripped again
C18_Witness ==
    /\ tasks = <<"done", "sleep">>
    /\ cut

\* C19: every rejection is backed by an open breaker.  The step in which a
\* call returns false is either its open check, which read the indicator
\* true, or its compare-and-swap, which set the indicator to true or failed
\* because it was true already: the indicator is true at that instant of the
\* call.
C19_RejectionBackedByOpen ==
    [][\A c \in Callers :
          (pc[c] # "idle" /\ pc'[c] = "idle" /\ ret'[c] = "block") =>
              \/ StepAt(c, "open") /\ cut /\ cut'
              \/ StepAt(c, "trip") /\ ~cut /\ cut'
              \/ StepAt(c, "trip") /\ cut /\ cut']_vars

\* one call was rejected at its compare-and-swap and another at its open
\* check, and the breaker has closed again since
C19_Witness ==
    \E c, d \in Callers :
        /\ c # d
        /\ pc[c] = "idle" /\ ret[c] = "block" /\ touched[c]
        /\ pc[d] = "idle" /\ ret[d] = "block" /\ ~touched[d]
        /\ tasks = <<"done">>
        /\ ~cut

=============================================================================
